---------------------------- MODULE Spec2Model ----------------------------
(***************************************************************************)
(* Model of the georeferencing service of MapRVA/georeference-tool: the    *)
(* request handlers of images/views.py acting on the tables declared in    *)
(* images/models.py (Georeference, GeoreferenceValidation, ImageSkip and   *)
(* the denormalised Image.skip_count).                                      *)
(*                                                                         *)
(* A request is handled by a worker.  Every database statement of a        *)
(* handler is one step of the model, so that requests of different workers *)
(* interleave between statements as they do under the production database  *)
(* (PostgreSQL, READ COMMITTED: a statement sees the rows committed before  *)
(* it starts plus the writes of its own transaction).                       *)
(*                                                                         *)
(* Coordinates are whole degrees.  JSON values of a request body keep      *)
(* their JSON type, because the handlers depend on Python truthiness and   *)
(* on float()/int()/str.strip() of them.                                    *)
(***************************************************************************)
EXTENDS Integers, Sequences, FiniteSets, TLC

\* ------------------------------------------------------------------ bounds
NumImages  == 2
NumWorkers == 2
MaxGeorefs == 2

Images  == 1..NumImages
Workers == 1..NumWorkers
Users   == {"alice", "bob"}
\* request.user of an unauthenticated request; NULL in georeferenced_by
Anonymous == "anonymous"

\* Users with is_staff
Staff == {"admin"}

\* An id no Image row has
MissingImage == NumImages + 1

\* The catalogue: source 1 holds collections 1 and 2, source 2 holds
\* collection 3; image i belongs to collection ((i - 1) % 3) + 1.  A
\* collection's slug is unique within its source only.
Sources     == 1..2
Collections == 1..3
SourceOf(c)     == IF c <= 2 THEN 1 ELSE 2
CollectionOf(i) == ((i - 1) % 3) + 1
SourceSlug(x)     == IF x = 1 THEN "s1" ELSE "s2"
CollectionSlug(c) == IF c = 2 THEN "b" ELSE "a"

\* Image.DIFFICULTY_CHOICES; "none" is the column's NULL
Difficulties == {"easy", "medium", "hard"}

\* ------------------------------------------------------------- JSON values
Num(n)  == [t |-> "num",    n |-> n, s |-> << >>]
Str(s)  == [t |-> "str",    n |-> 0, s |-> s]
Null    == [t |-> "null",   n |-> 0, s |-> << >>]
\* the key is not in the request body
Absent  == [t |-> "absent", n |-> 0, s |-> << >>]

\* data.get(key): a missing key reads as None
Get(j) == IF j.t = "absent" THEN Null ELSE j

\* data.get(key, ""): a missing key reads as the empty string
GetOrEmpty(j) == IF j.t = "absent" THEN Str(<< >>) ELSE j

\* Python truth value of a JSON value
Truthy(j) ==
    CASE j.t = "num" -> j.n # 0
      [] j.t = "str" -> Len(j.s) > 0
      [] OTHER       -> FALSE

IsSpace(c) == c = " "

RECURSIVE LStrip(_)
LStrip(s) == IF s # << >> /\ IsSpace(Head(s)) THEN LStrip(Tail(s)) ELSE s

RECURSIVE RStrip(_)
RStrip(s) ==
    IF s # << >> /\ IsSpace(s[Len(s)]) THEN RStrip(SubSeq(s, 1, Len(s) - 1)) ELSE s

\* str.strip()
Strip(s) == RStrip(LStrip(s))

Digits == <<"0", "1", "2", "3", "4", "5", "6", "7", "8", "9">>

IsDigit(c) == \E k \in 1..10 : Digits[k] = c

DigitVal(c) == (CHOOSE k \in 1..10 : Digits[k] = c) - 1

RECURSIVE DigitsVal(_)
DigitsVal(s) ==
    IF s = << >> THEN 0
    ELSE 10 * DigitsVal(SubSeq(s, 1, Len(s) - 1)) + DigitVal(s[Len(s)])

\* The number a string denotes for int()/float(): surrounding blanks are
\* dropped, an optional sign, then digits.  ok = FALSE is Python's ValueError.
ParseNumber(s) ==
    LET t    == Strip(s)
        neg  == t # << >> /\ Head(t) = "-"
        body == IF t # << >> /\ Head(t) \in {"-", "+"} THEN Tail(t) ELSE t
    IN  IF body # << >> /\ \A k \in 1..Len(body) : IsDigit(body[k])
        THEN [ok |-> TRUE, v |-> IF neg THEN 0 - DigitsVal(body) ELSE DigitsVal(body)]
        ELSE [ok |-> FALSE, v |-> 0]

\* float(x) and int(x) of a JSON value: ok = FALSE is ValueError (a string
\* that is no number) or TypeError (None); both are answered the same way.
ToNumber(j) ==
    CASE j.t = "num" -> [ok |-> TRUE, v |-> j.n]
      [] j.t = "str" -> ParseNumber(j.s)
      [] OTHER       -> [ok |-> FALSE, v |-> 0]


\* ------------------------------------------------------------------- state
VARIABLES
    georefs,      \* table Georeference: row id -> row, ids given in insert order
    validations,  \* table GeoreferenceValidation (committed rows)
    skips,        \* table ImageSkip (committed rows)
    skip_count,   \* column Image.skip_count (committed value), per image
    req,          \* per worker: the request it is handling and where it stands
    will_not_georef,    \* column Image.will_not_georef, per image
    difficulty,         \* column Image.difficulty, per image
    source_public,      \* column Source.public, per source
    collection_public,  \* column Collection.public, per collection
    session             \* request.session of a browser session

\* The columns the staff edit
labels == <<will_not_georef, difficulty, source_public, collection_public>>

vars == <<georefs, validations, skips, skip_count, req, labels, session>>

\* A session without the keys of a login: is_authenticated and osm_username
\* are keys osm_auth keeps, auth_user_id is django.contrib.auth's
\* _auth_user_id; Anonymous stands for a key that is not set
NoSession == [is_authenticated |-> FALSE, osm_username |-> Anonymous,
              auth_user_id |-> Anonymous]

NoData == [latitude |-> Absent, longitude |-> Absent, direction |-> Absent,
           confidence |-> "", notes |-> Absent]

\* request.GET of the georeferencing page, request.POST of the staff's edits
NoParams == [source |-> "", collection |-> "", difficulty |-> "", image |-> << >>,
             collection_id |-> 0, flag |-> FALSE]

Idle == [pc |-> "idle", op |-> "", user |-> Anonymous, image |-> 0,
         data |-> NoData, gid |-> 0, vote |-> "", cnt |-> 0, resp |-> "",
         params |-> NoParams, result |-> 0]

\* ---------------------------------------------------------- request bodies
Body(lat, lon, dir, conf, notes) ==
    [latitude |-> lat, longitude |-> lon, direction |-> dir,
     confidence |-> conf, notes |-> notes]

\* Bodies of the sequential runs: one per rule of the handler and per way of
\* breaking it.
SubmitBodies ==
    { Body(Num(37), Num(-77), Absent, "medium", Absent),
      Body(Num(38), Num(-78), Num(90), "medium", Str(<<"o", "k">>)),
      Body(Str(<<" ", "3", "7">>), Str(<<"-", "7", "7">>), Str(<<"0">>), "high", Absent),
      Body(Num(37), Num(-77), Num(0), "medium", Absent),
      Body(Num(37), Num(-77), Num(360), "medium", Absent),
      Body(Num(37), Num(-77), Absent, "medium", Null),
      Body(Num(37), Num(-77), Num(90), "high", Absent),
      Body(Num(0), Num(0), Num(0), "high", Absent),
      Body(Num(-90), Num(180), Num(359), "high", Absent),
      Body(Num(37), Num(-77), Absent, "high", Absent),
      Body(Num(37), Num(-77), Null, "high", Absent),
      Body(Num(0), Num(0), Absent, "low", Absent),
      Body(Num(0), Num(0), Absent, "low", Str(<< >>)),
      Body(Num(0), Num(0), Absent, "low", Str(<<" ", " ">>)),
      Body(Num(0), Num(0), Absent, "low", Null),
      Body(Num(0), Num(0), Absent, "low", Str(<<" ", "g", " ">>)),
      Body(Num(91), Num(-77), Absent, "medium", Absent),
      Body(Num(-91), Num(-77), Absent, "medium", Absent),
      Body(Num(37), Num(181), Absent, "medium", Absent),
      Body(Str(<<"x">>), Num(-77), Absent, "medium", Absent),
      Body(Null, Num(-77), Absent, "medium", Absent),
      Body(Absent, Num(-77), Absent, "medium", Absent),
      Body(Num(37), Num(-77), Absent, "bogus", Absent),
      Body(Num(37), Num(-77), Absent, "absent", Absent) }

\* Bodies of the interleaved runs: two well-formed proposals that differ, and
\* one the table refuses (notes: null).
ConcurrentBodies ==
    { Body(Num(37), Num(-77), Absent, "medium", Absent),
      Body(Num(-90), Num(180), Num(359), "high", Absent),
      Body(Num(37), Num(-77), Absent, "medium", Null) }

\* data["validation"] of a validate request
Votes == {"correct", "incorrect", "uncertain", "maybe"}

\* Votes of the interleaved runs: one of the choices and one that is none
ConcurrentVotes == {"correct", "maybe"}

\* ------------------------------------------------------ table Georeference
\* GeoreferenceConstraints with the uniqueness of (image, georeferenced_by)
\* that Meta.constraints once held
GeoreferenceConstraints_UniquePerUser == {"unique_image_georeferenced_by"}


\* Georeference.Meta.constraints: the names of the uniqueness constraints
GeoreferenceConstraints == {}

\* NOT NULL columns and uniqueness constraints of Georeference: an INSERT or
\* UPDATE that leaves `row` at id `self` (0 for a new row) in `table` raises
\* IntegrityError.
GeoreferenceIntegrityError(table, self, row) ==
    \/ row.confidence_notes = Null
    \/ /\ "unique_image_georeferenced_by" \in GeoreferenceConstraints
       /\ row.georeferenced_by # Anonymous
       /\ \E k \in 1..Len(table) :
            /\ k # self
            /\ table[k].image = row.image
            /\ table[k].georeferenced_by = row.georeferenced_by

\* image.georeferences.exists()
HasGeoreferences(table, i) == \E k \in 1..Len(table) : table[k].image = i

\* Georeference.objects.filter(image=, georeferenced_by=).first(): the lowest
\* id, 0 when there is none
FirstGeoreferenceOf(table, i, u) ==
    LET ids == {k \in 1..Len(table) :
                    table[k].image = i /\ table[k].georeferenced_by = u}
    IN  IF ids = {} THEN 0 ELSE CHOOSE k \in ids : \A m \in ids : k <= m

\* -------------------------------------------------------------- submission
\* FieldChecks without the rule that a high confidence requires a direction
FieldChecks_NoDirectionRule(d) ==
    IF d.latitude.t = "absent" \/ d.longitude.t = "absent" \/ d.confidence = "absent"
        THEN "missing_field"
    ELSE IF d.confidence \notin {"low", "medium", "high"}
        THEN "invalid_confidence"
    ELSE IF d.confidence = "low" /\ GetOrEmpty(d.notes).t # "str"
        THEN "server_error"
    ELSE IF d.confidence = "low" /\ Strip(GetOrEmpty(d.notes).s) = << >>
        THEN "low_requires_notes"
    ELSE "pass"


\* FieldChecks with the notes of a low confidence not stripped before they
\* are tested
FieldChecks_NotesNotStripped(d) ==
    IF d.latitude.t = "absent" \/ d.longitude.t = "absent" \/ d.confidence = "absent"
        THEN "missing_field"
    ELSE IF d.confidence \notin {"low", "medium", "high"}
        THEN "invalid_confidence"
    ELSE IF d.confidence = "high" /\ ~Truthy(Get(d.direction))
        THEN "high_requires_direction"
    ELSE IF d.confidence = "low" /\ GetOrEmpty(d.notes).t # "str"
        THEN "server_error"
    ELSE IF d.confidence = "low" /\ GetOrEmpty(d.notes).s = << >>
        THEN "low_requires_notes"
    ELSE "pass"

\* views.georeference_image, the checks before the write: "pass", or the
\* error answered.
FieldChecks(d) ==
    IF d.latitude.t = "absent" \/ d.longitude.t = "absent" \/ d.confidence = "absent"
        THEN "missing_field"
    ELSE IF d.confidence \notin {"low", "medium", "high"}
        THEN "invalid_confidence"
    ELSE IF d.confidence = "high" /\ ~Truthy(Get(d.direction))
        THEN "high_requires_direction"
    ELSE IF d.confidence = "low" /\ GetOrEmpty(d.notes).t # "str"
        THEN "server_error"             \* None.strip(): AttributeError
    ELSE IF d.confidence = "low" /\ Strip(GetOrEmpty(d.notes).s) = << >>
        THEN "low_requires_notes"
    ELSE "pass"

\* float()/int() of the fields, as evaluated for the INSERT and the UPDATE
Converts(d) ==
    /\ ToNumber(d.latitude).ok
    /\ ToNumber(d.longitude).ok
    /\ Truthy(Get(d.direction)) => ToNumber(d.direction).ok

\* The row the handler writes for body d
RowOf(i, u, d) ==
    [image            |-> i,
     latitude         |-> ToNumber(d.latitude).v,
     longitude        |-> ToNumber(d.longitude).v,
     direction        |-> IF Truthy(Get(d.direction))
                          THEN Num(ToNumber(d.direction).v) ELSE Null,
     confidence       |-> d.confidence,
     georeferenced_by |-> u,
     confidence_notes |-> GetOrEmpty(d.notes)]

Finish(w, r) == req' = [req EXCEPT ![w].pc = "done", ![w].resp = r]

\* The status of the response: the status= of the JsonResponse returned, 200
\* where none is given.  Http404 of get_object_or_404 is raised inside the
\* try block of georeference_image, validate_georeference and skip_image and
\* answered by their `except Exception` (500), inside the try block of
\* update_image_label (400), and outside any in mark_difficulty and
\* mark_will_not_georef (404).
HttpStatus(op, r) ==
    CASE r \in {"ok", "already_skipped"}  -> 200
      [] r = "authentication_required"    -> 401
      [] r = "admin_required"             -> 403
      [] r \in {"login_redirect", "redirect"} -> 302
      [] r = "server_error"               -> 500
      [] r = "not_found"                  ->
            IF op \in {"submit", "validate", "skip"} THEN 500
            ELSE IF op = "label" THEN 400 ELSE 404
      [] OTHER                            -> 400

\* "success" of the response body
Success(r) == r = "ok"

\* Rows that requests in flight may still insert
PendingInserts == Cardinality({w \in Workers : req[w].pc \in {"create", "fallback"}})

\* The request arrives: the image is fetched, an anonymous request is turned
\* away when the image has a georeference, the fields are checked.
SubmitBegin(w, u, i, d) ==
    /\ req[w].pc = "idle"
    /\ Len(georefs) + PendingInserts < MaxGeorefs
    /\ LET r == IF i \notin Images THEN "not_found"
                ELSE IF u = Anonymous /\ HasGeoreferences(georefs, i)
                THEN "anonymous_rejected" ELSE FieldChecks(d)
       IN  req' = [req EXCEPT ![w] =
                     [Idle EXCEPT !.op = "submit", !.user = u, !.image = i, !.data = d,
                                  !.pc = IF r = "pass" THEN "create" ELSE "done",
                                  !.resp = IF r = "pass" THEN "" ELSE r]]
    /\ UNCHANGED <<georefs, validations, skips, skip_count, labels, session>>

\* with transaction.atomic(): Georeference.objects.create(...)
SubmitCreate(w) ==
    /\ req[w].pc = "create"
    /\ LET u   == req[w].user
           d   == req[w].data
           row == RowOf(req[w].image, u, d)
       IN  IF ~Converts(d)
           THEN Finish(w, "invalid_format") /\ UNCHANGED georefs
           ELSE IF GeoreferenceIntegrityError(georefs, 0, row)
           THEN /\ IF u # Anonymous
                   THEN req' = [req EXCEPT ![w].pc = "fallback"]
                   ELSE Finish(w, "server_error")
                /\ UNCHANGED georefs
           ELSE /\ georefs' = Append(georefs, row)
                /\ req' = [req EXCEPT ![w].pc = "done", ![w].resp = "ok",
                                      ![w].gid = Len(georefs) + 1]
    /\ UNCHANGED <<validations, skips, skip_count, labels, session>>

\* except IntegrityError: the submitter's first row for the image is
\* rewritten in a second transaction.
SubmitFallback(w) ==
    /\ req[w].pc = "fallback"
    /\ LET u   == req[w].user
           d   == req[w].data
           k   == FirstGeoreferenceOf(georefs, req[w].image, u)
           row == RowOf(req[w].image, u, d)
       IN  IF k = 0 \/ GeoreferenceIntegrityError(georefs, k, row)
           THEN Finish(w, "server_error") /\ UNCHANGED georefs
           ELSE /\ georefs' = [georefs EXCEPT ![k] = row]
                /\ req' = [req EXCEPT ![w].pc = "done", ![w].resp = "ok", ![w].gid = k]
    /\ UNCHANGED <<validations, skips, skip_count, labels, session>>

\* The response has been sent; the worker takes the next request.
Return(w) ==
    /\ req[w].pc = "done"
    /\ req' = [req EXCEPT ![w] = Idle]
    /\ UNCHANGED <<georefs, validations, skips, skip_count, labels, session>>


\* -------------------------------------------------------------- validation
\* ValidationIntegrityError of a table without unique_together
ValidationIntegrityError_NoConstraint(table, row) == FALSE

\* GeoreferenceValidation.Meta.unique_together = [georeference, validated_by]
ValidationIntegrityError(table, row) ==
    \E v \in table : /\ v.georeference = row.georeference
                     /\ v.validated_by = row.validated_by

\* The rows of `table` with the georeference and the voter of `row`
SamePair(table, row) ==
    {v \in table : /\ v.georeference = row.georeference
                   /\ v.validated_by = row.validated_by}

\* GeoreferenceValidation.objects.filter(georeference=, validated_by=).exists()
HasValidated(table, g, u) ==
    \E v \in table : v.georeference = g /\ v.validated_by = u

\* ValidateChecks without the test for the voter's own georeference
ValidateChecks_OwnWorkAllowed(u, g, vote) ==
    IF u = Anonymous THEN "authentication_required"
    ELSE IF g \notin 1..Len(georefs) THEN "not_found"
    ELSE IF HasValidated(validations, g, u) THEN "duplicate_validation"
    ELSE IF vote \notin {"correct", "incorrect", "uncertain"} THEN "invalid_choice"
    ELSE "pass"

\* views.validate_georeference, the checks before the write: "pass", or the
\* error answered.
ValidateChecks(u, g, vote) ==
    IF u = Anonymous THEN "authentication_required"
    ELSE IF g \notin 1..Len(georefs) THEN "not_found"
    ELSE IF georefs[g].georeferenced_by = u THEN "self_validation"
    ELSE IF HasValidated(validations, g, u) THEN "duplicate_validation"
    ELSE IF vote \notin {"correct", "incorrect", "uncertain"} THEN "invalid_choice"
    ELSE "pass"

\* The request arrives.  The georeference is read before the voter's earlier
\* vote is looked up; no statement changes or removes the submitter of a row,
\* so the two reads are one step.
ValidateBegin(w, u, g, vote) ==
    /\ req[w].pc = "idle"
    /\ LET r == ValidateChecks(u, g, vote)
       IN  req' = [req EXCEPT ![w] =
                     [Idle EXCEPT !.op = "validate", !.user = u, !.gid = g, !.vote = vote,
                                  !.pc = IF r = "pass" THEN "vcreate" ELSE "done",
                                  !.resp = IF r = "pass" THEN "" ELSE r]]
    /\ UNCHANGED <<georefs, validations, skips, skip_count, labels, session>>

\* ValidateCreate as an update_or_create: a vote of the same voter on the
\* same georeference is replaced
ValidateCreate_ReplacesVote(w) ==
    /\ req[w].pc = "vcreate"
    /\ LET key == [georeference |-> req[w].gid, validated_by |-> req[w].user]
           row == [georeference |-> req[w].gid, validated_by |-> req[w].user,
                   validation |-> req[w].vote, copy |-> 0]
       IN  Finish(w, "ok") /\ validations' = (validations \ SamePair(validations, key)) \cup {row}
    /\ UNCHANGED <<georefs, skips, skip_count, labels, session>>


\* with transaction.atomic(): GeoreferenceValidation.objects.create(...)
ValidateCreate(w) ==
    /\ req[w].pc = "vcreate"
    /\ LET key == [georeference |-> req[w].gid, validated_by |-> req[w].user]
           \* rows are told apart by their primary key: of the key the model
           \* keeps what tells the rows of one pair apart
           row == [georeference |-> req[w].gid, validated_by |-> req[w].user,
                   validation |-> req[w].vote,
                   copy |-> Cardinality(SamePair(validations, key))]
       IN  IF ValidationIntegrityError(validations, row)
           THEN Finish(w, "server_error") /\ UNCHANGED validations
           ELSE Finish(w, "ok") /\ validations' = validations \cup {row}
    /\ UNCHANGED <<georefs, skips, skip_count, labels, session>>

\* -------------------------------------------------------------------- skips
\* A transaction that has written an ImageSkip row and not yet committed
InSkipTxn(w) == req[w].pc \in {"skip_count", "skip_save", "skip_commit"}

SkipKey(w) == [image |-> req[w].image, user |-> req[w].user]

\* The rows of `rows` for image i and user u.  Rows are told apart by their
\* primary key: of the key the model keeps, in `copy`, what tells the rows
\* of one (image, user) pair apart.
SkipsOf(rows, i, u) == {s \in rows : s.image = i /\ s.user = u}

\* ImageSkip.objects.filter(image=, user=).exists()
HasSkipped(rows, i, u) == SkipsOf(rows, i, u) # {}

\* Another transaction holds an uncommitted write of the same ImageSkip row:
\* the statement waits for it to end.
SkipRowLocked(w) ==
    \E v \in Workers \ {w} : InSkipTxn(v) /\ SkipKey(v) = SkipKey(w)

\* Another transaction holds an uncommitted UPDATE of the same Image row
ImageRowLocked(w) ==
    \E v \in Workers \ {w} : req[v].pc = "skip_commit" /\ req[v].image = req[w].image

\* The ImageSkip rows a statement of w's transaction sees: the committed rows
\* and the transaction's own write.
VisibleSkips(w) ==
    IF ~InSkipTxn(w) THEN skips
    ELSE IF req[w].op = "skip"
    THEN skips \cup {[image |-> req[w].image, user |-> req[w].user,
                      copy |-> Cardinality(SkipsOf(skips, req[w].image, req[w].user))]}
    ELSE skips \ SkipsOf(skips, req[w].image, req[w].user)

\* SkipsCount over the skips of every image (ImageSkip.objects.count())
SkipsCount_EveryImage(rows, i) == Cardinality(rows)

\* instance.image.skips.count()
SkipsCount(rows, i) == Cardinality({s \in rows : s.image = i})

\* SkipBegin with the skips of anonymous callers tracked like any other
SkipBegin_AnonymousTracked(w, u, i) ==
    /\ req[w].pc = "idle"
    /\ LET r == IF i \notin Images THEN "not_found"
                ELSE IF HasSkipped(skips, i, u) THEN "already_skipped"
                ELSE "pass"
       IN  req' = [req EXCEPT ![w] =
                     [Idle EXCEPT !.op = "skip", !.user = u, !.image = i,
                                  !.pc = IF r = "pass" THEN "skip_insert" ELSE "done",
                                  !.resp = IF r = "pass" THEN "" ELSE r]]
    /\ UNCHANGED <<georefs, validations, skips, skip_count, labels, session>>

\* views.skip_image: the image is fetched; an anonymous skip is answered at
\* once; get_or_create first looks the row up.
SkipBegin(w, u, i) ==
    /\ req[w].pc = "idle"
    /\ LET r == IF i \notin Images THEN "not_found"
                ELSE IF u = Anonymous THEN "ok"
                ELSE IF HasSkipped(skips, i, u) THEN "already_skipped"
                ELSE "pass"
       IN  req' = [req EXCEPT ![w] =
                     [Idle EXCEPT !.op = "skip", !.user = u, !.image = i,
                                  !.pc = IF r = "pass" THEN "skip_insert" ELSE "done",
                                  !.resp = IF r = "pass" THEN "" ELSE r]]
    /\ UNCHANGED <<georefs, validations, skips, skip_count, labels, session>>

\* SkipInsert into a table without unique_together: the INSERT neither waits
\* for a row of the same key nor is refused by one
SkipInsert_NoUniqueTogether(w) ==
    /\ req[w].pc = "skip_insert"
    /\ req' = [req EXCEPT ![w].pc = "skip_count"]
    /\ UNCHANGED <<georefs, validations, skips, skip_count, labels, session>>

\* get_or_create, the INSERT.  ImageSkip.Meta.unique_together = [image, user]:
\* a committed row of the same key raises IntegrityError, which get_or_create
\* answers with the row found (created = False).
SkipInsert(w) ==
    /\ req[w].pc = "skip_insert"
    /\ ~SkipRowLocked(w)
    /\ IF HasSkipped(skips, req[w].image, req[w].user)
       THEN Finish(w, "already_skipped")
       ELSE req' = [req EXCEPT ![w].pc = "skip_count"]
    /\ UNCHANGED <<georefs, validations, skips, skip_count, labels, session>>

\* The admin deletes an ImageSkip row it has on screen: the DELETE.
UnskipBegin(w, u, i) ==
    /\ req[w].pc = "idle"
    /\ HasSkipped(skips, i, u)
    /\ req' = [req EXCEPT ![w] =
                 [Idle EXCEPT !.op = "unskip", !.user = u, !.image = i,
                              !.pc = "skip_delete"]]
    /\ UNCHANGED <<georefs, validations, skips, skip_count, labels, session>>

UnskipDelete(w) ==
    /\ req[w].pc = "skip_delete"
    /\ ~SkipRowLocked(w)
    /\ req' = [req EXCEPT ![w].pc = "skip_count"]
    /\ UNCHANGED <<georefs, validations, skips, skip_count, labels, session>>

\* models.update_skip_count (post_save, post_delete of ImageSkip), first
\* statement: instance.image.skips.count()
UpdateSkipCountRead(w) ==
    /\ req[w].pc = "skip_count"
    /\ req' = [req EXCEPT ![w].pc = "skip_save",
                          ![w].cnt = SkipsCount(VisibleSkips(w), req[w].image)]
    /\ UNCHANGED <<georefs, validations, skips, skip_count, labels, session>>

\* models.update_skip_count, second statement:
\* instance.image.save(update_fields=["skip_count"])
UpdateSkipCountSave(w) ==
    /\ req[w].pc = "skip_save"
    /\ ~ImageRowLocked(w)
    /\ req' = [req EXCEPT ![w].pc = "skip_commit"]
    /\ UNCHANGED <<georefs, validations, skips, skip_count, labels, session>>

\* The atomic block ends: the row written and the counter become visible.
SkipCommit(w) ==
    /\ req[w].pc = "skip_commit"
    /\ skips' = VisibleSkips(w)
    /\ skip_count' = [skip_count EXCEPT ![req[w].image] = req[w].cnt]
    /\ Finish(w, "ok")
    /\ UNCHANGED <<georefs, validations, labels, session>>

\* ------------------------------------------------------------ staff edits
\* StaffChecks without the test of is_staff
StaffChecks_StaffNotRequired(u) ==
    IF u = Anonymous THEN "authentication_required"
    ELSE "pass"

\* The checks of mark_difficulty and mark_will_not_georef before the image is
\* fetched
StaffChecks(u) ==
    IF u = Anonymous THEN "authentication_required"
    ELSE IF u \notin Staff THEN "admin_required"
    ELSE "pass"

\* views.mark_will_not_georef
MarkWillNotGeoref(w, u, i) ==
    /\ req[w].pc = "idle"
    /\ LET r == IF StaffChecks(u) # "pass" THEN StaffChecks(u)
                ELSE IF i \notin Images THEN "not_found"
                ELSE "ok"
       IN  /\ req' = [req EXCEPT ![w] =
                        [Idle EXCEPT !.op = "mark_will_not_georef", !.user = u,
                                     !.image = i, !.pc = "done", !.resp = r]]
           /\ will_not_georef' = IF r = "ok"
                                 THEN [will_not_georef EXCEPT ![i] = TRUE]
                                 ELSE will_not_georef
    /\ UNCHANGED <<georefs, validations, skips, skip_count,
                   difficulty, source_public, collection_public, session>>

\* views.mark_difficulty
MarkDifficulty(w, u, i, d) ==
    /\ req[w].pc = "idle"
    /\ LET r == IF StaffChecks(u) # "pass" THEN StaffChecks(u)
                ELSE IF i \notin Images THEN "not_found"
                ELSE IF d \notin Difficulties THEN "invalid_difficulty"
                ELSE "ok"
       IN  /\ req' = [req EXCEPT ![w] =
                        [Idle EXCEPT !.op = "mark_difficulty", !.user = u,
                                     !.image = i, !.pc = "done", !.resp = r,
                                     !.params = [NoParams EXCEPT !.difficulty = d]]]
           /\ difficulty' = IF r = "ok" THEN [difficulty EXCEPT ![i] = d]
                            ELSE difficulty
    /\ UNCHANGED <<georefs, validations, skips, skip_count,
                   will_not_georef, source_public, collection_public, session>>

\* admin.CollectionAdmin.update_image_label, behind admin_site.admin_view:
\* d is POST["difficulty"] ("" when absent), flag is
\* POST.get("will_not_georef") == "true".
UpdateImageLabel(w, u, c, i, d, flag) ==
    /\ req[w].pc = "idle"
    /\ LET r == IF u \notin Staff THEN "login_redirect"
                ELSE IF i \notin Images \/ CollectionOf(i) # c THEN "not_found"
                ELSE "ok"
       IN  /\ req' = [req EXCEPT ![w] =
                        [Idle EXCEPT !.op = "label", !.user = u,
                                     !.image = i, !.pc = "done", !.resp = r,
                                     !.params = [NoParams EXCEPT !.difficulty = d,
                                                   !.collection_id = c, !.flag = flag]]]
           /\ difficulty' =
                 IF r # "ok" \/ d = "" THEN difficulty
                 ELSE [difficulty EXCEPT ![i] = d]   \* "none" is NULL
           /\ will_not_georef' =
                 IF r = "ok" THEN [will_not_georef EXCEPT ![i] = flag]
                 ELSE will_not_georef
    /\ UNCHANGED <<georefs, validations, skips, skip_count,
                   source_public, collection_public, session>>

\* admin.SourceAdmin, the change form: Source.public
SetSourcePublic(w, u, x, b) ==
    /\ req[w].pc = "idle"
    /\ LET r == IF u \notin Staff THEN "login_redirect" ELSE "ok"
       IN  /\ req' = [req EXCEPT ![w] =
                        [Idle EXCEPT !.op = "source_public", !.user = u,
                                     !.pc = "done", !.resp = r]]
           /\ source_public' = IF r = "ok" THEN [source_public EXCEPT ![x] = b]
                               ELSE source_public
    /\ UNCHANGED <<georefs, validations, skips, skip_count,
                   will_not_georef, difficulty, collection_public, session>>

\* admin.CollectionAdmin, the change form: Collection.public
SetCollectionPublic(w, u, c, b) ==
    /\ req[w].pc = "idle"
    /\ LET r == IF u \notin Staff THEN "login_redirect" ELSE "ok"
       IN  /\ req' = [req EXCEPT ![w] =
                        [Idle EXCEPT !.op = "collection_public", !.user = u,
                                     !.pc = "done", !.resp = r]]
           /\ collection_public' = IF r = "ok"
                                   THEN [collection_public EXCEPT ![c] = b]
                                   ELSE collection_public
    /\ UNCHANGED <<georefs, validations, skips, skip_count,
                   will_not_georef, difficulty, source_public, session>>

\* ------------------------------------------------------------ sessions
\* request.user of a request of the session: AuthenticationMiddleware reads
\* _auth_user_id of the session and asks the backend for that user
\* (OSMAuthBackend.get_user); the keys of osm_auth are not consulted
RequestUser == session.auth_user_id

\* The session without the keys osm_auth keeps (osm_user_id, osm_username,
\* osm_user_data, osm_oauth_token, is_authenticated)
WithoutOsmKeys(s) == [s EXCEPT !.is_authenticated = FALSE, !.osm_username = Anonymous]

\* Logout as django.contrib.auth.logout does it: the session is flushed
Logout_SessionFlushed(w) ==
    /\ req[w].pc = "idle"
    /\ req' = [req EXCEPT ![w] =
                 [Idle EXCEPT !.op = "logout", !.user = RequestUser,
                              !.pc = "done", !.resp = "redirect"]]
    /\ session' = NoSession
    /\ UNCHANGED <<georefs, validations, skips, skip_count, labels>>

\* osm_auth.views.logout: the keys of osm_auth are deleted from the session
Logout(w) ==
    /\ req[w].pc = "idle"
    /\ req' = [req EXCEPT ![w] =
                 [Idle EXCEPT !.op = "logout", !.user = RequestUser,
                              !.pc = "done", !.resp = "redirect"]]
    /\ session' = WithoutOsmKeys(session)
    /\ UNCHANGED <<georefs, validations, skips, skip_count, labels>>

\* osm_auth.views.login: the keys of osm_auth are cleared and the browser is
\* sent to OpenStreetMap
Login(w) ==
    /\ req[w].pc = "idle"
    /\ req' = [req EXCEPT ![w] =
                 [Idle EXCEPT !.op = "login", !.user = RequestUser,
                              !.pc = "done", !.resp = "redirect"]]
    /\ session' = WithoutOsmKeys(session)
    /\ UNCHANGED <<georefs, validations, skips, skip_count, labels>>

\* osm_auth.views.callback for the OpenStreetMap user u.  ok: the token
\* exchange succeeds; the keys are stored, authenticate() returns the Django
\* user of u and auth_login() stores it in the session, flushing the session
\* first when it holds another user's _auth_user_id.  Not ok: the exception
\* handler clears the keys of osm_auth.
Callback(w, u, ok) ==
    /\ req[w].pc = "idle"
    /\ req' = [req EXCEPT ![w] =
                 [Idle EXCEPT !.op = "callback", !.user = RequestUser,
                              !.pc = "done", !.resp = "redirect"]]
    /\ session' =
          IF ~ok THEN WithoutOsmKeys(session)
          ELSE IF session.auth_user_id \notin {Anonymous, u}
          THEN [NoSession EXCEPT !.auth_user_id = u]
          ELSE [is_authenticated |-> TRUE, osm_username |-> u, auth_user_id |-> u]
    /\ UNCHANGED <<georefs, validations, skips, skip_count, labels>>


\* ---------------------------------------------------------- work selection
\* collection__public = True, collection__source__public = True
IsPublic(i) ==
    collection_public[CollectionOf(i)] /\ source_public[SourceOf(CollectionOf(i))]

\* RequestedImage without the test of will_not_georef
RequestedImage_FlagIgnored(image_id) ==
    IF image_id = << >> THEN 0
    ELSE LET n == ParseNumber(image_id)
         IN  IF n.ok /\ n.v \in Images /\ IsPublic(n.v) THEN n.v ELSE 0

\* georeference_interface, the image of request.GET["image"]:
\* Image.objects.get(id=int(image_id), will_not_georef=False, ...), 0 when
\* the parameter is empty, is no number (ValueError) or names no such row
\* (Image.DoesNotExist)
RequestedImage(image_id) ==
    IF image_id = << >> THEN 0
    ELSE LET n == ParseNumber(image_id)
         IN  IF n.ok /\ n.v \in Images /\ ~will_not_georef[n.v] /\ IsPublic(n.v)
             THEN n.v ELSE 0

\* AvailableImages without the test that the image has no georeference
AvailableImages_GeoreferencedIncluded(u) ==
    {i \in Images : /\ ~will_not_georef[i]
                    /\ IsPublic(i)
                    /\ u # Anonymous => ~HasSkipped(skips, i, u)}


\* AvailableImages without the exclusion of the user's skips
AvailableImages_SkipsIgnored(u) ==
    {i \in Images : /\ ~HasGeoreferences(georefs, i)
                    /\ ~will_not_georef[i]
                    /\ IsPublic(i)}

\* Image.objects.filter(georeferences__isnull=True, will_not_georef=False,
\* collection__public=True, collection__source__public=True), and for an
\* authenticated user .exclude(skips__user=request.user)
AvailableImages(u) ==
    {i \in Images : /\ ~HasGeoreferences(georefs, i)
                    /\ ~will_not_georef[i]
                    /\ IsPublic(i)
                    /\ u # Anonymous => ~HasSkipped(skips, i, u)}

\* Source.objects.filter(slug=, public=True)
PublicSources(slug) ==
    {x \in Sources : SourceSlug(x) = slug /\ source_public[x]}

\* Collection.objects.filter(source=, slug=, public=True)
PublicCollections(x, slug) ==
    {c \in Collections :
        SourceOf(c) = x /\ CollectionSlug(c) = slug /\ collection_public[c]}

PageOf(i)   == [resp |-> "ok", result |-> i]
Http404Page == [resp |-> "not_found", result |-> 0]

\* views.georeference_interface: the responses the request can get; result
\* is current_image, 0 for None.  order_by("?").first() returns any row of
\* the queryset.
georeference_interface(u, p) ==
    LET current == RequestedImage(p.image)
        srcs    == IF p.source # "" THEN PublicSources(p.source) ELSE {}
        colls   == IF p.collection # "" /\ srcs # {}
                   THEN UNION {PublicCollections(x, p.collection) : x \in srcs}
                   ELSE {}
        images  == {i \in AvailableImages(u) :
                     /\ p.source # "" =>
                          /\ SourceOf(CollectionOf(i)) \in srcs
                          /\ collection_public[CollectionOf(i)]
                     /\ (p.collection # "" /\ srcs # {}) => CollectionOf(i) \in colls
                     /\ p.difficulty \in Difficulties => difficulty[i] = p.difficulty}
    IN  IF p.source # "" /\ srcs = {} THEN {Http404Page}
        ELSE IF p.collection # "" /\ srcs # {} /\ colls = {} THEN {Http404Page}
        ELSE IF current # 0 THEN {PageOf(current)}
        ELSE IF images = {} THEN {PageOf(0)}
        ELSE {PageOf(i) : i \in images}

\* The georeferencing page is requested
SelectImage(w, u, p) ==
    /\ req[w].pc = "idle"
    /\ \E o \in georeference_interface(u, p) :
         req' = [req EXCEPT ![w] =
                   [Idle EXCEPT !.op = "select", !.user = u, !.params = p,
                                !.pc = "done", !.resp = o.resp, !.result = o.result]]
    /\ UNCHANGED <<georefs, validations, skips, skip_count, labels, session>>

\* views.get_random_image: the redirects the request can get; result is the
\* image redirected to, 0 for the redirect to the list.
get_random_image(u, d) ==
    LET images == {i \in AvailableImages(u) :
                     d \in Difficulties => difficulty[i] = d}
    IN  IF images = {} THEN {[resp |-> "redirect", result |-> 0]}
        ELSE {[resp |-> "redirect", result |-> i] : i \in images}

RandomImage(w, u, d) ==
    /\ req[w].pc = "idle"
    /\ \E o \in get_random_image(u, d) :
         req' = [req EXCEPT ![w] =
                   [Idle EXCEPT !.op = "random", !.user = u,
                                !.params = [NoParams EXCEPT !.difficulty = d],
                                !.pc = "done", !.resp = o.resp, !.result = o.result]]
    /\ UNCHANGED <<georefs, validations, skips, skip_count, labels, session>>

\* ------------------------------------------------------------ status
\* georeference_status with the validations looked at before the flag
georeference_status_ValidatedFirst(i) ==
    IF \E k \in 1..Len(georefs) :
          /\ georefs[k].image = i
          /\ \E v \in validations : v.georeference = k
    THEN "validated"
    ELSE IF will_not_georef[i] THEN "will_not_georef"
    ELSE IF HasGeoreferences(georefs, i) THEN "georeferenced"
    ELSE "pending"

\* georeference_status without the look at the validations
georeference_status_IgnoresValidations(i) ==
    IF will_not_georef[i] THEN "will_not_georef"
    ELSE IF HasGeoreferences(georefs, i) THEN "georeferenced"
    ELSE "pending"

\* Image.georeference_status
georeference_status(i) ==
    IF will_not_georef[i] THEN "will_not_georef"
    ELSE IF HasGeoreferences(georefs, i)
    THEN IF \E k \in 1..Len(georefs) :
               /\ georefs[k].image = i
               /\ \E v \in validations : v.georeference = k
         THEN "validated"
         ELSE "georeferenced"
    ELSE "pending"

\* ----------------------------------------------------------- specification
Init ==
    /\ georefs = << >>
    /\ validations = {}
    /\ skips = {}
    /\ skip_count = [i \in Images |-> 0]
    /\ req = [w \in Workers |-> Idle]
    /\ will_not_georef = [i \in Images |-> FALSE]
    /\ difficulty = [i \in Images |-> "none"]
    /\ source_public = [x \in Sources |-> TRUE]
    /\ collection_public = [c \in Collections |-> TRUE]
    /\ session = NoSession

\* No other worker is handling a request
Alone(w) == \A v \in Workers \ {w} : req[v].pc = "idle"

\* request.GET of the georeferencing page: source, collection, difficulty
FilterChoices ==
    { <<"", "", "">>,
      <<"s1", "", "">>, <<"s2", "", "">>, <<"zz", "", "">>,
      <<"s1", "a", "">>, <<"s1", "b", "">>, <<"s1", "zz", "">>,
      <<"", "b", "">>,
      <<"", "", "easy">>, <<"", "", "bogus">> }

\* request.GET["image"]: absent, two ids, an id no image has, no number
ImageChoices == { << >>, <<"1">>, <<"2">>, <<"9">>, <<"x">> }

SelectRequests ==
    {[NoParams EXCEPT !.source = f[1], !.collection = f[2], !.difficulty = f[3],
                      !.image = m] : f \in FilterChoices, m \in ImageChoices}

\* The whole service: every handler, interleaved between statements
Next ==
    \/ \E w \in Workers, u \in Users \cup {Anonymous}, i \in Images, d \in SubmitBodies :
         SubmitBegin(w, u, i, d)
    \/ \E w \in Workers : SubmitCreate(w)
    \/ \E w \in Workers : SubmitFallback(w)
    \/ \E w \in Workers, u \in Users \cup {Anonymous}, g \in 1..MaxGeorefs, v \in Votes :
         ValidateBegin(w, u, g, v)
    \/ \E w \in Workers : ValidateCreate(w)
    \/ \E w \in Workers, u \in Users \cup {Anonymous}, i \in Images : SkipBegin(w, u, i)
    \/ \E w \in Workers : SkipInsert(w)
    \/ \E w \in Workers, u \in Users, i \in Images : UnskipBegin(w, u, i)
    \/ \E w \in Workers : UnskipDelete(w)
    \/ \E w \in Workers : UpdateSkipCountRead(w)
    \/ \E w \in Workers : UpdateSkipCountSave(w)
    \/ \E w \in Workers : SkipCommit(w)
    \/ \E w \in Workers, u \in Users \cup Staff \cup {Anonymous}, i \in Images \cup {MissingImage} :
         MarkWillNotGeoref(w, u, i)
    \/ \E w \in Workers, u \in Users \cup Staff \cup {Anonymous}, i \in Images \cup {MissingImage},
          d \in Difficulties :
         MarkDifficulty(w, u, i, d)
    \/ \E w \in Workers, u \in Users \cup Staff \cup {Anonymous}, c \in Collections,
          i \in Images \cup {MissingImage}, d \in Difficulties \cup {"", "none"},
          flag \in BOOLEAN :
         UpdateImageLabel(w, u, c, i, d, flag)
    \/ \E w \in Workers, u \in Users \cup Staff \cup {Anonymous}, x \in Sources, b \in BOOLEAN :
         SetSourcePublic(w, u, x, b)
    \/ \E w \in Workers, u \in Users \cup Staff \cup {Anonymous}, c \in Collections, b \in BOOLEAN :
         SetCollectionPublic(w, u, c, b)
    \/ \E w \in Workers, u \in Users \cup {Anonymous}, p \in SelectRequests :
         SelectImage(w, u, p)
    \/ \E w \in Workers, u \in Users \cup {Anonymous}, d \in Difficulties \cup {""} :
         RandomImage(w, u, d)
    \/ \E w \in Workers : Login(w)
    \/ \E w \in Workers, u \in Users, ok \in BOOLEAN : Callback(w, u, ok)
    \/ \E w \in Workers : Logout(w)
    \/ \E w \in Workers : Return(w)

Spec == Init /\ [][Next]_vars

(***************************************************************************)
(* The handlers of one kind of request write tables of their own           *)
(* (submission: Georeference; validation: GeoreferenceValidation; skip:    *)
(* ImageSkip and Image.skip_count), so each kind is checked in a           *)
(* specification that holds its handlers and the handlers of what it       *)
(* reads, over the request inputs its properties are about.                *)
(***************************************************************************)

\* Submissions, one request at a time, over every request body
SubmitNext ==
    \/ \E w \in Workers, u \in Users \cup {Anonymous}, i \in Images, d \in SubmitBodies :
         Alone(w) /\ SubmitBegin(w, u, i, d)
    \/ \E w \in Workers : SubmitCreate(w)
    \/ \E w \in Workers : SubmitFallback(w)
    \/ \E w \in Workers : Return(w)

SubmitSpec == Init /\ [][SubmitNext]_vars

\* The bodies with confidence low, and the one the table refuses
LowConfidenceBodies == {d \in SubmitBodies : d.confidence = "low" \/ d.notes = Null}

\* Submissions with confidence low, one request at a time
LowConfidenceNext ==
    \/ \E w \in Workers, u \in Users \cup {Anonymous}, i \in Images,
          d \in LowConfidenceBodies :
         Alone(w) /\ SubmitBegin(w, u, i, d)
    \/ \E w \in Workers : SubmitCreate(w)
    \/ \E w \in Workers : SubmitFallback(w)
    \/ \E w \in Workers : Return(w)

LowConfidenceSpec == Init /\ [][LowConfidenceNext]_vars

\* Submissions, interleaved
ConcurrentSubmitNext ==
    \/ \E w \in Workers, u \in Users \cup {Anonymous}, i \in Images, d \in ConcurrentBodies :
         SubmitBegin(w, u, i, d)
    \/ \E w \in Workers : SubmitCreate(w)
    \/ \E w \in Workers : SubmitFallback(w)
    \/ \E w \in Workers : Return(w)

ConcurrentSubmitSpec == Init /\ [][ConcurrentSubmitNext]_vars

\* Submissions one at a time, and validations interleaved
ReviewNext ==
    \/ \E w \in Workers, u \in Users \cup {Anonymous}, i \in Images, d \in ConcurrentBodies :
         Alone(w) /\ SubmitBegin(w, u, i, d)
    \/ \E w \in Workers : SubmitCreate(w)
    \/ \E w \in Workers : SubmitFallback(w)
    \/ \E w \in Workers, u \in Users \cup {Anonymous}, g \in 1..MaxGeorefs,
          v \in ConcurrentVotes :
         ValidateBegin(w, u, g, v)
    \/ \E w \in Workers : ValidateCreate(w)
    \/ \E w \in Workers : Return(w)

ReviewSpec == Init /\ [][ReviewNext]_vars

\* Skips and deletions of skips, interleaved
SkipNext ==
    \/ \E w \in Workers, u \in Users \cup {Anonymous}, i \in Images : SkipBegin(w, u, i)
    \/ \E w \in Workers : SkipInsert(w)
    \/ \E w \in Workers, u \in Users, i \in Images : UnskipBegin(w, u, i)
    \/ \E w \in Workers : UnskipDelete(w)
    \/ \E w \in Workers : UpdateSkipCountRead(w)
    \/ \E w \in Workers : UpdateSkipCountSave(w)
    \/ \E w \in Workers : SkipCommit(w)
    \/ \E w \in Workers : Return(w)

SkipSpec == Init /\ [][SkipNext]_vars

\* Skips and deletions of skips, one request at a time
SkipSeqNext ==
    \/ \E w \in Workers, u \in Users \cup {Anonymous}, i \in Images \cup {MissingImage} :
         Alone(w) /\ SkipBegin(w, u, i)
    \/ \E w \in Workers : SkipInsert(w)
    \/ \E w \in Workers, u \in Users, i \in Images : Alone(w) /\ UnskipBegin(w, u, i)
    \/ \E w \in Workers : UnskipDelete(w)
    \/ \E w \in Workers : UpdateSkipCountRead(w)
    \/ \E w \in Workers : UpdateSkipCountSave(w)
    \/ \E w \in Workers : SkipCommit(w)
    \/ \E w \in Workers : Return(w)

SkipSeqSpec == Init /\ [][SkipSeqNext]_vars

\* The body of a plain submission
PlainBody == Body(Num(37), Num(-77), Absent, "medium", Absent)

\* Submissions, validations and the staff's will_not_georef edits, one
\* request at a time.  Every submission carries PlainBody, which the table
\* takes, so the handler's fallback is never entered.
StatusNext ==
    \/ \E w \in Workers, u \in {"alice", Anonymous}, i \in Images :
         Alone(w) /\ SubmitBegin(w, u, i, PlainBody)
    \/ \E w \in Workers : SubmitCreate(w)
    \/ \E w \in Workers, g \in 1..MaxGeorefs :
         Alone(w) /\ ValidateBegin(w, "bob", g, "correct")
    \/ \E w \in Workers : ValidateCreate(w)
    \/ \E w \in Workers, i \in Images :
         Alone(w) /\ MarkWillNotGeoref(w, "admin", i)
    \/ \E w \in Workers, i \in Images :
         Alone(w) /\ UpdateImageLabel(w, "admin", CollectionOf(i), i, "", FALSE)
    \/ \E w \in Workers : Return(w)

StatusSpec == Init /\ [][StatusNext]_vars

\* Bodies of the runs of submissions followed by validations: a plain one and
\* one the table refuses (notes: null)
ScenarioBodies == {PlainBody, Body(Num(37), Num(-77), Absent, "medium", Null)}

\* Submissions and validations, one request at a time, for images and
\* georeferences that exist and for ids that no row has
ReviewSeqNext ==
    \/ \E w \in Workers, u \in {"alice", Anonymous},
          i \in Images \cup {MissingImage}, d \in ScenarioBodies :
         Alone(w) /\ SubmitBegin(w, u, i, d)
    \/ \E w \in Workers : SubmitCreate(w)
    \/ \E w \in Workers : SubmitFallback(w)
    \/ \E w \in Workers, u \in Users \cup {Anonymous}, g \in 1..(MaxGeorefs + 1),
          v \in ConcurrentVotes :
         Alone(w) /\ ValidateBegin(w, u, g, v)
    \/ \E w \in Workers : ValidateCreate(w)
    \/ \E w \in Workers : Return(w)

ReviewSeqSpec == Init /\ [][ReviewSeqNext]_vars

\* The georeferencing page and the random image, one request at a time,
\* between anonymous submissions, alice's skips and the staff's edits of
\* flags, difficulties and visibility
SelectNext ==
    \/ \E w \in Workers, u \in Users \cup {Anonymous}, p \in SelectRequests :
         Alone(w) /\ SelectImage(w, u, p)
    \/ \E w \in Workers, u \in Users \cup {Anonymous}, d \in {"", "easy"} :
         Alone(w) /\ RandomImage(w, u, d)
    \/ \E w \in Workers, i \in Images :
         Alone(w) /\ SubmitBegin(w, Anonymous, i, PlainBody)
    \/ \E w \in Workers : SubmitCreate(w)
    \/ \E w \in Workers, i \in Images : Alone(w) /\ SkipBegin(w, "alice", i)
    \/ \E w \in Workers : SkipInsert(w)
    \/ \E w \in Workers : UpdateSkipCountRead(w)
    \/ \E w \in Workers : UpdateSkipCountSave(w)
    \/ \E w \in Workers : SkipCommit(w)
    \/ \E w \in Workers, i \in Images :
         Alone(w) /\ MarkWillNotGeoref(w, "admin", i)
    \/ \E w \in Workers, i \in Images :
         Alone(w) /\ MarkDifficulty(w, "admin", i, "easy")
    \/ \E w \in Workers, b \in BOOLEAN :
         Alone(w) /\ SetSourcePublic(w, "admin", 1, b)
    \/ \E w \in Workers, b \in BOOLEAN :
         Alone(w) /\ SetCollectionPublic(w, "admin", 1, b)
    \/ \E w \in Workers : Return(w)

SelectSpec == Init /\ [][SelectNext]_vars

\* No other worker is handling a request; the answer of a
\* mark_will_not_georef request may still lie unread on its worker
Settled(w) ==
    \A v \in Workers \ {w} :
        \/ req[v].pc = "idle"
        \/ req[v].pc = "done" /\ req[v].op = "mark_will_not_georef"

\* The staff's flag, difficulty and label edits, then anonymous submissions,
\* bob's validations and alice's skips, then the georeferencing page and the
\* random image for alice, one request at a time
ExclusionNext ==
    \/ \E w \in Workers, i \in Images :
         Settled(w) /\ MarkWillNotGeoref(w, "admin", i)
    \/ \E w \in Workers, i \in Images :
         Settled(w) /\ MarkDifficulty(w, "admin", i, "easy")
    \/ \E w \in Workers, i \in Images, flag \in BOOLEAN :
         Settled(w) /\ UpdateImageLabel(w, "admin", CollectionOf(i), i, "hard", flag)
    \/ \E w \in Workers, i \in Images :
         Settled(w) /\ SubmitBegin(w, Anonymous, i, PlainBody)
    \/ \E w \in Workers : SubmitCreate(w)
    \/ \E w \in Workers, g \in 1..MaxGeorefs :
         Settled(w) /\ ValidateBegin(w, "bob", g, "correct")
    \/ \E w \in Workers : ValidateCreate(w)
    \/ \E w \in Workers, i \in Images : Settled(w) /\ SkipBegin(w, "alice", i)
    \/ \E w \in Workers : SkipInsert(w)
    \/ \E w \in Workers : UpdateSkipCountRead(w)
    \/ \E w \in Workers : UpdateSkipCountSave(w)
    \/ \E w \in Workers : SkipCommit(w)
    \/ \E w \in Workers, m \in {<< >>, <<"1">>} :
         Settled(w) /\ SelectImage(w, "alice", [NoParams EXCEPT !.image = m])
    \/ \E w \in Workers : Settled(w) /\ RandomImage(w, "alice", "")
    \/ \E w \in Workers : Return(w)

ExclusionSpec == Init /\ [][ExclusionNext]_vars

\* The staff's edits as requested by staff, by a user who is no staff and by
\* an anonymous caller, for images that exist and an id no image has, between
\* anonymous submissions, bob's validations and alice's skips, one request at
\* a time
LabelNext ==
    \/ \E w \in Workers, u \in {"admin", "alice", Anonymous},
          i \in Images \cup {MissingImage}, d \in {"hard", "bogus"} :
         Alone(w) /\ MarkDifficulty(w, u, i, d)
    \/ \E w \in Workers, u \in {"admin", "alice", Anonymous},
          i \in Images \cup {MissingImage} :
         Alone(w) /\ MarkWillNotGeoref(w, u, i)
    \/ \E w \in Workers, u \in {"admin", "alice"}, i \in Images, flag \in BOOLEAN :
         Alone(w) /\ UpdateImageLabel(w, u, CollectionOf(i), i, "hard", flag)
    \/ \E w \in Workers, i \in Images :
         Alone(w) /\ SubmitBegin(w, Anonymous, i, PlainBody)
    \/ \E w \in Workers : SubmitCreate(w)
    \/ \E w \in Workers : Alone(w) /\ ValidateBegin(w, "bob", 1, "correct")
    \/ \E w \in Workers : ValidateCreate(w)
    \/ \E w \in Workers : Alone(w) /\ SkipBegin(w, "alice", 1)
    \/ \E w \in Workers : SkipInsert(w)
    \/ \E w \in Workers : UpdateSkipCountRead(w)
    \/ \E w \in Workers : UpdateSkipCountSave(w)
    \/ \E w \in Workers : SkipCommit(w)
    \/ \E w \in Workers : Return(w)

LabelSpec == Init /\ [][LabelNext]_vars

\* Two of the choices of a vote
TwoVotes == {"correct", "incorrect"}

\* Validations of the first georeference interleaved, votes of either choice
\* by either user, between submissions for image 1 by alice and by anonymous
\* callers, alice's skips and alice's requests of the georeferencing page,
\* these one request at a time
RevoteNext ==
    \/ \E w \in Workers, u \in {"alice", Anonymous} :
         Alone(w) /\ SubmitBegin(w, u, 1, PlainBody)
    \/ \E w \in Workers : SubmitCreate(w)
    \/ \E w \in Workers, u \in Users, v \in TwoVotes :
         ValidateBegin(w, u, 1, v)
    \/ \E w \in Workers : ValidateCreate(w)
    \/ \E w \in Workers : Alone(w) /\ SkipBegin(w, "alice", 1)
    \/ \E w \in Workers : SkipInsert(w)
    \/ \E w \in Workers : UpdateSkipCountRead(w)
    \/ \E w \in Workers : UpdateSkipCountSave(w)
    \/ \E w \in Workers : SkipCommit(w)
    \/ \E w \in Workers : Alone(w) /\ SelectImage(w, "alice", NoParams)
    \/ \E w \in Workers : Return(w)

RevoteSpec == Init /\ [][RevoteNext]_vars

\* Bodies for the two rules of the confidence: high with a direction (a
\* number, the text "0"), with direction 0 and with none; low with notes,
\* with blank notes and with none; and one the table refuses (notes: null)
ConfidenceBodies ==
    { Body(Num(37), Num(-77), Num(90), "high", Absent),
      Body(Str(<<" ", "3", "7">>), Str(<<"-", "7", "7">>), Str(<<"0">>), "high", Absent),
      Body(Num(0), Num(0), Num(0), "high", Absent),
      Body(Num(37), Num(-77), Absent, "high", Absent),
      Body(Num(0), Num(0), Absent, "low", Str(<<" ", "g", " ">>)),
      Body(Num(0), Num(0), Absent, "low", Str(<<" ", " ">>)),
      Body(Num(0), Num(0), Absent, "low", Absent),
      Body(Num(37), Num(-77), Absent, "medium", Null) }

\* Submissions of these bodies by alice and by anonymous callers, one request
\* at a time
ConfidenceNext ==
    \/ \E w \in Workers, u \in {"alice", Anonymous}, i \in Images,
          d \in ConfidenceBodies :
         Alone(w) /\ SubmitBegin(w, u, i, d)
    \/ \E w \in Workers : SubmitCreate(w)
    \/ \E w \in Workers : SubmitFallback(w)
    \/ \E w \in Workers : Return(w)

ConfidenceSpec == Init /\ [][ConfidenceNext]_vars

\* No other worker is handling a request; the answer of a logout may still
\* lie unread on its worker
SettledSession(w) ==
    \A v \in Workers \ {w} :
        \/ req[v].pc = "idle"
        \/ req[v].pc = "done" /\ req[v].op = "logout"

\* One browser session: logins through OpenStreetMap, logouts, and the
\* session's submissions, validations and skips, one request at a time.  No
\* login is handled while the answer of a logout lies unread.
SessionNext ==
    \/ \E w \in Workers : Alone(w) /\ Login(w)
    \/ \E w \in Workers, u \in Users, ok \in BOOLEAN : Alone(w) /\ Callback(w, u, ok)
    \/ \E w \in Workers : Alone(w) /\ Logout(w)
    \/ \E w \in Workers, i \in Images :
         SettledSession(w) /\ SubmitBegin(w, RequestUser, i, PlainBody)
    \/ \E w \in Workers : SubmitCreate(w)
    \/ \E w \in Workers, g \in 1..MaxGeorefs :
         SettledSession(w) /\ ValidateBegin(w, RequestUser, g, "correct")
    \/ \E w \in Workers : ValidateCreate(w)
    \/ \E w \in Workers, i \in Images :
         SettledSession(w) /\ SkipBegin(w, RequestUser, i)
    \/ \E w \in Workers : SkipInsert(w)
    \/ \E w \in Workers : UpdateSkipCountRead(w)
    \/ \E w \in Workers : UpdateSkipCountSave(w)
    \/ \E w \in Workers : SkipCommit(w)
    \/ \E w \in Workers : Return(w)

SessionSpec == Init /\ [][SessionNext]_vars

\* alice's submissions and corrections of differing values, and one the table
\* refuses, with bob's validations, one request at a time
CorrectionNext ==
    \/ \E w \in Workers, i \in Images, d \in ConcurrentBodies :
         Alone(w) /\ SubmitBegin(w, "alice", i, d)
    \/ \E w \in Workers : SubmitCreate(w)
    \/ \E w \in Workers : SubmitFallback(w)
    \/ \E w \in Workers, g \in 1..MaxGeorefs :
         Alone(w) /\ ValidateBegin(w, "bob", g, "correct")
    \/ \E w \in Workers : ValidateCreate(w)
    \/ \E w \in Workers : Return(w)

CorrectionSpec == Init /\ [][CorrectionNext]_vars

\* Submissions by alice and by anonymous callers, bob's validations, alice's
\* skips of image 1, the random pick of the page and of the random image,
\* and the staff setting and clearing the flag of image 1, one request at a
\* time
ProgressNext ==
    \/ \E w \in Workers, u \in {"alice", Anonymous}, i \in Images :
         Alone(w) /\ SubmitBegin(w, u, i, PlainBody)
    \/ \E w \in Workers : SubmitCreate(w)
    \/ \E w \in Workers, g \in 1..MaxGeorefs :
         Alone(w) /\ ValidateBegin(w, "bob", g, "correct")
    \/ \E w \in Workers : ValidateCreate(w)
    \/ \E w \in Workers : Alone(w) /\ SkipBegin(w, "alice", 1)
    \/ \E w \in Workers : SkipInsert(w)
    \/ \E w \in Workers : UpdateSkipCountRead(w)
    \/ \E w \in Workers : UpdateSkipCountSave(w)
    \/ \E w \in Workers : SkipCommit(w)
    \/ \E w \in Workers : Alone(w) /\ SelectImage(w, "alice", NoParams)
    \/ \E w \in Workers : Alone(w) /\ RandomImage(w, Anonymous, "")
    \/ \E w \in Workers : Alone(w) /\ MarkWillNotGeoref(w, "admin", 1)
    \/ \E w \in Workers :
         Alone(w) /\ UpdateImageLabel(w, "admin", CollectionOf(1), 1, "", FALSE)
    \/ \E w \in Workers : Return(w)

ProgressSpec == Init /\ [][ProgressNext]_vars

(***************************************************************************)
(*                               Properties                                *)
(***************************************************************************)

\* The ids of the rows user u has submitted for image i
RowsOf(i, u) ==
    {k \in 1..Len(georefs) : georefs[k].image = i /\ georefs[k].georeferenced_by = u}

\* Worker w has answered a submit request
SubmitDone(w) == req[w].op = "submit" /\ req[w].pc = "done"

\* This step is the arrival of a submit request at worker w
SubmitArrives(w) == req[w].pc = "idle" /\ req'[w].op = "submit"

\* This step is the write of worker w's submit request
SubmitWrites(w) == req[w].pc = "create" /\ req'[w].pc # "create"

\* The field denotes a whole number within lo..hi
NumberIn(j, lo, hi) == ToNumber(j).ok /\ ToNumber(j).v \in lo..hi

ValidCoordinates(d) ==
    NumberIn(d.latitude, -90, 90) /\ NumberIn(d.longitude, -180, 180)

NoDirection(d) == d.direction.t \in {"absent", "null"}

NotesText(d) == d.notes.t \in {"absent", "str"}

\* The notes are a text that is not blank
NotesGiven(d) == d.notes.t = "str" /\ Strip(d.notes.s) # << >>

\* A request body that breaks none of the stated rules of a submission
ValidSubmission(d) ==
    /\ ValidCoordinates(d)
    /\ d.confidence \in {"low", "medium", "high"}
    /\ NoDirection(d) \/ NumberIn(d.direction, 0, 359)
    /\ NotesText(d)
    /\ d.confidence = "high" => NumberIn(d.direction, 0, 359)
    /\ d.confidence = "low" => NotesGiven(d)

\* C1: after an authenticated user's successful submit of a valid body (a
\* second one on the same image as much as a first), that user has exactly
\* one row for the image, the one this call wrote, holding this call's values.
C1_IdempotentCorrection ==
    \A w \in Workers :
        ( /\ SubmitDone(w) /\ req[w].resp = "ok" /\ req[w].user # Anonymous
          /\ ValidSubmission(req[w].data) )
        => /\ RowsOf(req[w].image, req[w].user) = {req[w].gid}
           /\ georefs[req[w].gid] = RowOf(req[w].image, req[w].user, req[w].data)

\* C2: when two workers have answered valid submit requests of the same
\* authenticated user for the same image, however their statements were
\* interleaved, both answered success and the user has exactly one row for
\* the image.
C2_ConcurrentSubmitsOneRow ==
    \A w, v \in Workers :
        ( /\ w # v /\ SubmitDone(w) /\ SubmitDone(v)
          /\ req[w].user # Anonymous /\ req[w].user = req[v].user
          /\ req[w].image = req[v].image
          /\ ValidSubmission(req[w].data) /\ ValidSubmission(req[v].data) )
        => /\ req[w].resp = "ok" /\ req[v].resp = "ok"
           /\ Cardinality(RowsOf(req[w].image, req[w].user)) = 1

\* C3: an anonymous submit arriving for an image that has a georeference is
\* answered with the anonymous rejection and leaves the table as it is; an
\* anonymous submit with a valid body arriving for an image without
\* georeferences passes the checks, and its write adds its row and answers
\* success.
C3_AnonymousOnlyOnFreshImage ==
    [][\A w \in Workers :
        /\ ( /\ SubmitArrives(w) /\ req'[w].user = Anonymous
             /\ HasGeoreferences(georefs, req'[w].image) )
           => (req'[w].resp = "anonymous_rejected" /\ georefs' = georefs)
        /\ ( /\ SubmitArrives(w) /\ req'[w].user = Anonymous
             /\ ~HasGeoreferences(georefs, req'[w].image)
             /\ ValidSubmission(req'[w].data) )
           => req'[w].pc = "create"
        /\ ( /\ SubmitWrites(w) /\ req[w].user = Anonymous
             /\ ValidSubmission(req[w].data) )
           => /\ req'[w].resp = "ok"
              /\ georefs' = Append(georefs, RowOf(req[w].image, Anonymous, req[w].data))
      ]_vars

\* The ids of the rows of image i without a submitter
AnonymousRows(i) == RowsOf(i, Anonymous)

\* C4: every image has at most one row without a submitter, and that row is
\* the image's first row (it was inserted when the image had none).
C4_OneAnonymousRowPerImage ==
    \A i \in Images :
        /\ Cardinality(AnonymousRows(i)) <= 1
        /\ \A k \in AnonymousRows(i) :
             \A m \in 1..Len(georefs) : georefs[m].image = i => k <= m

\* C5: a submit with confidence high and no direction is answered with the
\* direction rule and writes no row; a submit with confidence high, valid
\* coordinates and a direction d in 0..359 that the anonymous rule does not
\* turn away is answered success, and its row holds direction d.
C5_HighConfidenceDirection ==
    \A w \in Workers :
        (SubmitDone(w) /\ req[w].data.confidence = "high"
            /\ req[w].resp # "anonymous_rejected")
        => /\ NoDirection(req[w].data)
              => (req[w].resp = "high_requires_direction" /\ req[w].gid = 0)
           /\ ( /\ ValidSubmission(req[w].data) )
              => /\ req[w].resp = "ok"
                 /\ georefs[req[w].gid].direction
                        = Num(ToNumber(req[w].data.direction).v)

\* C7: every row has its latitude in -90..90 and its longitude in -180..180,
\* and no submit with a coordinate outside these ranges is answered success.
C7_CoordinatesInRange ==
    /\ \A k \in 1..Len(georefs) :
         georefs[k].latitude \in -90..90 /\ georefs[k].longitude \in -180..180
    /\ \A w \in Workers :
         (SubmitDone(w) /\ ~ValidCoordinates(req[w].data)) => req[w].resp # "ok"

\* C6: an arriving submit with confidence low whose notes are missing, null,
\* empty or blank is answered at once with an error and leaves the table as
\* it is; one with valid coordinates and notes that are not blank, from a
\* user or from an anonymous caller on an image without georeferences,
\* passes the checks, and its write adds its row and answers success.
C6_LowConfidenceNotes ==
    [][\A w \in Workers :
        LET LowWithNotes(d) ==
                /\ d.confidence = "low" /\ NotesGiven(d) /\ ValidCoordinates(d)
                /\ NoDirection(d) \/ NumberIn(d.direction, 0, 359)
        IN  /\ ( /\ SubmitArrives(w) /\ req'[w].data.confidence = "low"
                 /\ ~NotesGiven(req'[w].data) )
               => /\ req'[w].pc = "done" /\ req'[w].resp # "ok"
                  /\ georefs' = georefs
            /\ ( /\ SubmitArrives(w) /\ LowWithNotes(req'[w].data)
                 /\ \/ req'[w].user # Anonymous
                    \/ ~HasGeoreferences(georefs, req'[w].image) )
               => req'[w].pc = "create"
            /\ (SubmitWrites(w) /\ LowWithNotes(req[w].data))
               => /\ req'[w].resp = "ok"
                  /\ georefs' = Append(georefs,
                                       RowOf(req[w].image, req[w].user, req[w].data))
      ]_vars

\* C6 happens: a submit with confidence low and blank notes has been turned
\* away, after an anonymous submit with confidence low and notes was stored.
C6_Witness ==
    /\ \E w \in Workers :
         /\ SubmitDone(w) /\ req[w].resp = "low_requires_notes"
         /\ req[w].data.notes.t = "str" /\ req[w].data.notes.s # << >>
    /\ \E k \in 1..Len(georefs) :
         /\ georefs[k].confidence = "low" /\ georefs[k].georeferenced_by = Anonymous
         /\ Strip(georefs[k].confidence_notes.s) # << >>

\* No request is being handled
Quiet == \A w \in Workers : req[w].pc \in {"idle", "done"}

\* C8: whenever the skips and deletions made so far, one after the other,
\* have all been answered, the skip_count of every image is the number of
\* ImageSkip rows of that image.
C8_SkipCountAfterSequence ==
    Quiet => \A i \in Images : skip_count[i] = Cardinality({s \in skips : s.image = i})

\* C8 happens: the deletion of a skip has been answered for an image that
\* another user's skip still references.
C8_Witness ==
    \E w \in Workers :
        /\ req[w].op = "unskip" /\ req[w].pc = "done"
        /\ skip_count[req[w].image] = 1
        /\ \E s \in skips : s.image = req[w].image
        /\ \E s \in skips : s.image # req[w].image

\* C9: in every committed state, whatever transactions are open, the
\* skip_count of every image is the number of committed ImageSkip rows of
\* that image.
C9_SkipCountCommitted ==
    \A i \in Images : skip_count[i] = Cardinality({s \in skips : s.image = i})

\* This step is the arrival of a validate request of a user for a
\* georeference that exists
ValidateArrives(w) ==
    /\ req[w].pc = "idle" /\ req'[w].op = "validate"
    /\ req'[w].user # Anonymous /\ req'[w].gid \in 1..Len(georefs)

\* C10: no validation is by the submitter of its georeference; an arriving
\* validate by the submitter of the georeference is answered as
\* self-validation, one by a voter who has a vote on it as a duplicate, and
\* both leave the validations as they are.
C10_NoSelfOrRepeatValidation ==
    /\ [](\A v \in validations :
            /\ v.georeference \in 1..Len(georefs)
            /\ georefs[v.georeference].georeferenced_by # v.validated_by)
    /\ [][\A w \in Workers :
            /\ ( /\ ValidateArrives(w)
                 /\ georefs[req'[w].gid].georeferenced_by = req'[w].user )
               => /\ req'[w].pc = "done" /\ req'[w].resp = "self_validation"
                  /\ validations' = validations
            /\ ( /\ ValidateArrives(w)
                 /\ georefs[req'[w].gid].georeferenced_by # req'[w].user
                 /\ HasValidated(validations, req'[w].gid, req'[w].user) )
               => /\ req'[w].pc = "done" /\ req'[w].resp = "duplicate_validation"
                  /\ validations' = validations
       ]_vars

\* C10 happens: one worker has turned away a self-validation and another a
\* second vote, while votes are on record.
C10_Witness ==
    /\ validations # {}
    /\ \E w, v \in Workers :
         /\ req[w].op = "validate" /\ req[w].resp = "self_validation"
         /\ req[v].op = "validate" /\ req[v].resp = "duplicate_validation"

\* C11: a georeference has at most one validation of a voter, and of two
\* validate requests of one voter for one georeference that are answered at
\* the same time at most one is answered with success.
C11_OneValidationPerVoter ==
    /\ \A v \in validations : SamePair(validations, v) = {v}
    /\ \A w, x \in Workers :
         ( /\ w # x
           /\ req[w].op = "validate" /\ req[x].op = "validate"
           /\ req[w].pc = "done" /\ req[x].pc = "done"
           /\ req[w].gid = req[x].gid /\ req[w].user = req[x].user )
         => ~(req[w].resp = "ok" /\ req[x].resp = "ok")

\* C11 happens: two requests of one voter for one georeference both passed
\* the lookup of an earlier vote; one INSERT was committed and the other
\* refused by the table.
C11_Witness ==
    \E w, x \in Workers :
        /\ w # x
        /\ req[w].op = "validate" /\ req[x].op = "validate"
        /\ req[w].gid = req[x].gid /\ req[w].user = req[x].user
        /\ req[w].resp = "ok" /\ req[x].resp = "server_error"
        /\ req[x].gid \in 1..Len(georefs)
        /\ Cardinality(SamePair(validations,
               [georeference |-> req[w].gid, validated_by |-> req[w].user])) = 1

\* The ids of the georeferences of image i
GeoreferencesOf(i) == {k \in 1..Len(georefs) : georefs[k].image = i}

\* The validations of georeference k
ValidationsOf(k) == {v \in validations : v.georeference = k}

\* The status of image i by the rule of priority: the flag first, then a
\* validated georeference, then any georeference.
StatusByPriority(i) ==
    CASE will_not_georef[i] -> "will_not_georef"
      [] ~will_not_georef[i] /\ (\E k \in GeoreferencesOf(i) : ValidationsOf(k) # {})
            -> "validated"
      [] ~will_not_georef[i] /\ GeoreferencesOf(i) # {}
           /\ (\A k \in GeoreferencesOf(i) : ValidationsOf(k) = {})
            -> "georeferenced"
      [] OTHER -> "pending"

\* C12: the status of every image is the one the rule of priority gives, and
\* one of the four values.
C12_StatusIsPriorityFunction ==
    \A i \in Images :
        /\ georeference_status(i) = StatusByPriority(i)
        /\ georeference_status(i) \in
              {"pending", "georeferenced", "validated", "will_not_georef"}

\* C12 happens: an image with a validated georeference is flagged and reads
\* will_not_georef, while another image reads validated.
C12_Witness ==
    \E i, j \in Images :
        /\ will_not_georef[i]
        /\ \E k \in GeoreferencesOf(i) : ValidationsOf(k) # {}
        /\ georeference_status(i) = "will_not_georef"
        /\ georeference_status(j) = "validated"

\* This step is the INSERT of a validate request
ValidateWrites(w) == req[w].pc = "vcreate" /\ req'[w].pc # "vcreate"

\* C13: with one request at a time, (1) alice's valid medium-confidence
\* submit for an image whose status is pending passes the checks, and its
\* write answers success and makes the status georeferenced; (2) bob's vote
\* on a georeference of alice whose image has the status georeferenced passes
\* the checks, and its write answers success and makes the status validated;
\* (3) alice's vote on her own georeference of an image with the status
\* validated is answered as self-validation and the status stays validated.
C13_SubmitValidateScenario ==
    [][\A w \in Workers :
        /\ ( /\ SubmitArrives(w)
             /\ req'[w].user = "alice" /\ req'[w].image \in Images
             /\ req'[w].data.confidence = "medium"
             /\ ValidSubmission(req'[w].data)
             /\ georeference_status(req'[w].image) = "pending" )
           => req'[w].pc = "create"
        /\ ( /\ SubmitWrites(w)
             /\ req[w].user = "alice"
             /\ req[w].data.confidence = "medium"
             /\ ValidSubmission(req[w].data)
             /\ georeference_status(req[w].image) = "pending" )
           => /\ req'[w].pc = "done" /\ req'[w].resp = "ok"
              /\ georeference_status(req[w].image)' = "georeferenced"
        /\ ( /\ ValidateArrives(w)
             /\ req'[w].user = "bob"
             /\ req'[w].vote \in {"correct", "incorrect", "uncertain"}
             /\ georefs[req'[w].gid].georeferenced_by = "alice"
             /\ georeference_status(georefs[req'[w].gid].image) = "georeferenced" )
           => req'[w].pc = "vcreate"
        /\ ( /\ ValidateWrites(w)
             /\ req[w].user = "bob"
             /\ georefs[req[w].gid].georeferenced_by = "alice"
             /\ georeference_status(georefs[req[w].gid].image) = "georeferenced" )
           => /\ req'[w].pc = "done" /\ req'[w].resp = "ok"
              /\ georeference_status(georefs[req[w].gid].image)' = "validated"
        /\ \A i \in Images :
             ( /\ ValidateArrives(w)
               /\ req'[w].user = "alice"
               /\ georefs[req'[w].gid].georeferenced_by = "alice"
               /\ georefs[req'[w].gid].image = i
               /\ georeference_status(i) = "validated" )
             => /\ req'[w].pc = "done" /\ req'[w].resp = "self_validation"
                /\ georeference_status(i)' = "validated"
                /\ UNCHANGED <<georefs, validations>>
      ]_vars

\* C13 happens: alice's only georeference of an image carries bob's vote and
\* alice's own vote on it has just been turned away; the image is validated.
C13_Witness ==
    \E w \in Workers :
        /\ req[w].op = "validate" /\ req[w].pc = "done"
        /\ req[w].user = "alice" /\ req[w].resp = "self_validation"
        /\ req[w].gid \in 1..Len(georefs)
        /\ georefs[req[w].gid].georeferenced_by = "alice"
        /\ GeoreferencesOf(georefs[req[w].gid].image) = {req[w].gid}
        /\ ValidationsOf(req[w].gid) =
              {[georeference |-> req[w].gid, validated_by |-> "bob",
                validation |-> "correct", copy |-> 0]}
        /\ georeference_status(georefs[req[w].gid].image) = "validated"

\* The kind of outcome a caller reads off a response: its status and its
\* success flag
OutcomeKind(op, r) ==
    IF Success(r) THEN "Success"
    ELSE CASE HttpStatus(op, r) = 404 -> "NotFound"
           [] HttpStatus(op, r) = 400 -> "InvalidInputOrRuleViolation"
           [] HttpStatus(op, r) \in {401, 403} -> "Unauthorized"
           [] HttpStatus(op, r) = 500 -> "InternalFailure"
           [] OTHER -> "Other"

\* Worker w has answered a submit for an image that does not exist, or an
\* authenticated user's validate for a georeference that does not exist
AnsweredMissing(w) ==
    /\ req[w].pc = "done"
    /\ \/ req[w].op = "submit" /\ req[w].image \notin Images
       \/ /\ req[w].op = "validate" /\ req[w].user # Anonymous
          /\ req[w].gid \notin 1..Len(georefs)

\* C19: a submit for an image that does not exist and a validate for a
\* georeference that does not exist are answered with the outcome NotFound,
\* which is none of the outcomes of invalid input, a broken rule or an
\* internal failure, and the request leaves every table as it is.
C19_NotFoundIsDistinct ==
    /\ [](\A w \in Workers : AnsweredMissing(w) =>
             OutcomeKind(req[w].op, req[w].resp) = "NotFound")
    /\ [][\A w \in Workers : AnsweredMissing(w)' /\ req[w].pc = "idle" =>
             UNCHANGED <<georefs, validations, skips, skip_count, labels>>]_vars

\* Worker w has answered a request for an image to work on
SelectDone(w) == req[w].op \in {"select", "random"} /\ req[w].pc = "done"

\* C14: an image handed to an authenticated user, picked at random or named
\* in the request, is not one the user has skipped.
C14_SkippedNeverReturned ==
    \A w \in Workers :
        (SelectDone(w) /\ req[w].user # Anonymous /\ req[w].result \in Images)
        => ~(\E k \in skips : k.image = req[w].result /\ k.user = req[w].user)

\* The request names image i: its image parameter is the decimal text of i
Names(m, i) == i \in 1..9 /\ m = <<Digits[i + 1]>>

\* Image i may be opened by name: it exists, is not flagged, and its
\* collection and source are public
Openable(i) ==
    /\ i \in Images /\ ~will_not_georef[i]
    /\ collection_public[CollectionOf(i)]
    /\ source_public[SourceOf(CollectionOf(i))]

\* Image i matches the filters of request p.  A source is named by its slug,
\* a collection by the slug of its source and its own, a difficulty by one
\* of the three tiers; a parameter that names none of these is no filter.
MatchesFilters(i, p) ==
    /\ p.source # "" => SourceSlug(SourceOf(CollectionOf(i))) = p.source
    /\ (p.source # "" /\ p.collection # "") =>
          CollectionSlug(CollectionOf(i)) = p.collection
    /\ p.difficulty \in {"easy", "medium", "hard"} => difficulty[i] = p.difficulty

\* The eligible set of a request of user u with parameters p
EligibleSet(u, p) ==
    {i \in Images :
        /\ GeoreferencesOf(i) = {}
        /\ ~will_not_georef[i]
        /\ collection_public[CollectionOf(i)]
        /\ source_public[SourceOf(CollectionOf(i))]
        /\ MatchesFilters(i, p)
        /\ u # Anonymous => ~(\E k \in skips : k.image = i /\ k.user = u)}

\* Worker w has answered a request for the georeferencing page with the
\* page (the filters of the request name a public source and collection)
PageDone(w) ==
    req[w].op = "select" /\ req[w].pc = "done" /\ req[w].resp = "ok"

RandomDone(w) ==
    \/ PageDone(w) /\ req[w].params.image = << >>
    \/ req[w].op = "random" /\ req[w].pc = "done"

SkipArrives(w) ==
    req[w].pc = "idle" /\ req'[w].op = "skip" /\ req'[w].image \in Images

C20_FlaggedNeverSelected ==
    [][\A w \in Workers : \A x \in Workers \ {w} : \A i \in Images :
         ( /\ req[w].pc = "done"
           /\ req[w].op = "mark_will_not_georef"
           /\ req[w].resp = "ok"
           /\ req[w].image = i
           /\ req[x].pc = "idle"
           /\ req'[x].op \in {"select", "random"} )
         => req'[x].result # i]_vars

\* A request of the given operations arrives at worker w in this step
Arrives(w, ops) == req[w].pc = "idle" /\ req'[w].op \in ops

\* C21: difficulty and will_not_georef change only in a step that answers a
\* staff user's request with success.  mark_difficulty and
\* mark_will_not_georef of an anonymous caller or of a user who is no staff
\* are refused (401, 403) and write nothing; no step of a submission, a
\* validation or a skip writes the two columns; a mark_difficulty answered
\* with success writes the difficulty of the named image and nothing else, a
\* mark_will_not_georef answered with success the flag of the named image and
\* nothing else.
C21_LabelsWrittenByStaffOnly ==
    [][ /\ (difficulty' # difficulty \/ will_not_georef' # will_not_georef) =>
             \E w \in Workers :
                 /\ Arrives(w, {"mark_difficulty", "mark_will_not_georef", "label"})
                 /\ req'[w].user \in Staff
                 /\ Success(req'[w].resp)
        /\ \A w \in Workers :
             /\ ( /\ Arrives(w, {"mark_difficulty", "mark_will_not_georef"})
                  /\ req'[w].user \notin Staff ) =>
                    /\ HttpStatus(req'[w].op, req'[w].resp) =
                          IF req'[w].user = Anonymous THEN 401 ELSE 403
                    /\ UNCHANGED <<georefs, validations, skips, skip_count, labels>>
             /\ ( /\ req'[w] # req[w]
                  /\ req'[w].op \in {"submit", "validate", "skip"} ) =>
                    UNCHANGED <<difficulty, will_not_georef>>
             /\ ( /\ Arrives(w, {"mark_difficulty"})
                  /\ Success(req'[w].resp) ) =>
                    /\ difficulty' = [difficulty EXCEPT
                                        ![req'[w].image] = req'[w].params.difficulty]
                    /\ UNCHANGED <<georefs, validations, skips, skip_count,
                                   will_not_georef, source_public, collection_public>>
             /\ ( /\ Arrives(w, {"mark_will_not_georef"})
                  /\ Success(req'[w].resp) ) =>
                    /\ will_not_georef' = [will_not_georef EXCEPT ![req'[w].image] = TRUE]
                    /\ UNCHANGED <<georefs, validations, skips, skip_count,
                                   difficulty, source_public, collection_public>>
      ]_vars

\* mark_difficulty has been answered with success for an image whose flag had
\* been set before, and another image has neither a difficulty nor the flag
C21_Witness ==
    \E w \in Workers :
        /\ req[w].pc = "done"
        /\ req[w].op = "mark_difficulty"
        /\ req[w].resp = "ok"
        /\ difficulty[req[w].image] = "hard"
        /\ will_not_georef[req[w].image]
        /\ \E i \in Images : difficulty[i] = "none" /\ ~will_not_georef[i]

\* The class of error a response of submit reports
SubmitErrorClass(r) ==
    CASE r = "not_found" -> "NotFound"
      [] r \in {"missing_field", "invalid_confidence", "invalid_format"} -> "InvalidInput"
      [] r \in {"high_requires_direction", "low_requires_notes", "anonymous_rejected"} -> r
      [] OTHER -> "Other"

\* The error of the first precondition, in the stated order, that a submit of
\* body d for image i breaks before the anonymous restriction; "none" when
\* it breaks none of them
EarlierSubmitError(i, d) ==
    IF i \notin Images THEN "NotFound"
    ELSE IF ~ValidCoordinates(d) THEN "InvalidInput"
    ELSE IF d.confidence \notin {"low", "medium", "high"} THEN "InvalidInput"
    ELSE IF d.confidence = "high" /\ ~NumberIn(d.direction, 0, 359)
        THEN "high_requires_direction"
    ELSE IF d.confidence = "low" /\ ~NotesGiven(d) THEN "low_requires_notes"
    ELSE "none"

\* C22: a submit that breaks the anonymous restriction (no submitter, and the
\* image has a georeference) and also a precondition stated before it is
\* answered with the error of the earliest precondition it breaks; an
\* anonymous submit with a confidence that is none of the three values, for
\* an image that has a georeference, is answered as invalid input.
C22_SubmitErrorOrder ==
    [][\A w \in Workers :
         ( /\ SubmitArrives(w)
           /\ req'[w].user = Anonymous
           /\ HasGeoreferences(georefs, req'[w].image)
           /\ EarlierSubmitError(req'[w].image, req'[w].data) # "none" )
         => /\ req'[w].pc = "done"
            /\ SubmitErrorClass(req'[w].resp) =
                  EarlierSubmitError(req'[w].image, req'[w].data)
      ]_vars

\* C23: an arriving validate for a georeference that does not exist is
\* answered as not found also when the caller is not authenticated; a
\* validate by the submitter of the georeference, or by a voter who has a vote
\* on it, that carries a vote which is none of the three choices is answered
\* with the rule it breaks, not as an invalid choice.
C23_ValidateErrorOrder ==
    [][\A w \in Workers :
         LET Arrived == req[w].pc = "idle" /\ req'[w].op = "validate"
             g       == req'[w].gid
             u       == req'[w].user
             BadVote == req'[w].vote \notin {"correct", "incorrect", "uncertain"}
         IN  /\ (Arrived /\ g \notin 1..Len(georefs))
                => req'[w].resp = "not_found"
             /\ ( /\ Arrived /\ g \in 1..Len(georefs) /\ u # Anonymous /\ BadVote
                  /\ georefs[g].georeferenced_by = u )
                => req'[w].resp = "self_validation"
             /\ ( /\ Arrived /\ g \in 1..Len(georefs) /\ u # Anonymous /\ BadVote
                  /\ georefs[g].georeferenced_by # u
                  /\ HasValidated(validations, g, u) )
                => req'[w].resp = "duplicate_validation"
      ]_vars

\* The part of C23 about requests of authenticated voters
C23_AuthenticatedValidateOrder ==
    [][\A w \in Workers :
         LET Arrived == req[w].pc = "idle" /\ req'[w].op = "validate"
             g       == req'[w].gid
             u       == req'[w].user
             BadVote == req'[w].vote \notin {"correct", "incorrect", "uncertain"}
         IN  /\ (Arrived /\ g \notin 1..Len(georefs) /\ u # Anonymous)
                => req'[w].resp = "not_found"
             /\ ( /\ Arrived /\ g \in 1..Len(georefs) /\ u # Anonymous /\ BadVote
                  /\ georefs[g].georeferenced_by = u )
                => req'[w].resp = "self_validation"
             /\ ( /\ Arrived /\ g \in 1..Len(georefs) /\ u # Anonymous /\ BadVote
                  /\ georefs[g].georeferenced_by # u
                  /\ HasValidated(validations, g, u) )
                => req'[w].resp = "duplicate_validation"
      ]_vars

\* C24: no step changes or removes a row of GeoreferenceValidation (rows are
\* only added), and an arriving validate of a voter who has a vote on the
\* georeference is turned away as a duplicate and leaves the table as it is,
\* whatever its vote.
C24_ValidationsImmutable ==
    [][ /\ validations \subseteq validations'
        /\ \A v \in validations' \ validations :
             ~HasValidated(validations, v.georeference, v.validated_by)
        /\ \A w \in Workers :
             ( /\ req[w].pc = "idle" /\ req'[w].op = "validate"
               /\ req'[w].gid \in 1..Len(georefs)
               /\ georefs[req'[w].gid].georeferenced_by # req'[w].user
               /\ HasValidated(validations, req'[w].gid, req'[w].user) )
             => /\ req'[w].resp = "duplicate_validation"
                /\ validations' = validations
      ]_vars

\* A voter's second validate, with the other vote, has been turned away and
\* the first vote is on record
C24_Witness ==
    \E w \in Workers :
        /\ req[w].op = "validate" /\ req[w].pc = "done"
        /\ req[w].resp = "duplicate_validation"
        /\ req[w].vote = "incorrect"
        /\ SamePair(validations, [georeference |-> req[w].gid,
                                  validated_by |-> req[w].user]) =
              {[georeference |-> req[w].gid, validated_by |-> req[w].user,
                validation |-> "correct", copy |-> 0]}

\* C25: every row of Georeference with confidence high has a direction, and
\* every row with confidence low has notes that are a text which is not
\* blank, whichever statement wrote the row.
C25_ConfidenceRulesInRows ==
    \A k \in 1..Len(georefs) :
        /\ georefs[k].confidence = "high" => georefs[k].direction # Null
        /\ georefs[k].confidence = "low" =>
              /\ georefs[k].confidence_notes.t = "str"
              /\ Strip(georefs[k].confidence_notes.s) # << >>

\* A row with confidence high and a row with confidence low are stored
C25_Witness ==
    \E k, m \in 1..Len(georefs) :
        /\ georefs[k].confidence = "high" /\ georefs[k].direction.t = "num"
        /\ georefs[m].confidence = "low" /\ georefs[m].confidence_notes.s # << >>

\* The direction of every row of Georeference is NULL or a whole number in
\* 0..359
StoredDirectionInRange ==
    \A k \in 1..Len(georefs) :
        \/ georefs[k].direction = Null
        \/ georefs[k].direction.t = "num" /\ georefs[k].direction.n \in 0..359

\* A submit with direction 0 and confidence medium or low that is answered
\* with success has stored direction 0
DirectionZeroStored ==
    \A w \in Workers :
        ( /\ SubmitDone(w) /\ req[w].resp = "ok"
          /\ req[w].data.confidence \in {"medium", "low"}
          /\ NumberIn(req[w].data.direction, 0, 0) )
        => georefs[req[w].gid].direction = Num(0)

\* C26: the direction of every row of Georeference is NULL or a whole number
\* in 0..359 (so no submit with a direction outside 0..359 leaves a row with
\* it), and a submit with direction 0 and confidence medium or low that is
\* answered with success has stored direction 0.
C26_DirectionInRange == StoredDirectionInRange /\ DirectionZeroStored

\* C27: the image a page request without an image parameter is answered with
\* belongs to the collection the request names, with or without a source in
\* the request, to the source it names, and has the difficulty tier it names.
C27_FiltersAppliedIndependently ==
    \A w \in Workers :
        ( /\ PageDone(w) /\ req[w].params.image = << >>
          /\ req[w].result \in Images )
        => LET i == req[w].result
               p == req[w].params
           IN  /\ p.collection # "" => CollectionSlug(CollectionOf(i)) = p.collection
               /\ p.source # "" => SourceSlug(SourceOf(CollectionOf(i))) = p.source
               /\ p.difficulty \in Difficulties => difficulty[i] = p.difficulty

\* C27 for the requests that name a collection together with its source, or
\* none
FiltersAppliedWithSource ==
    \A w \in Workers :
        ( /\ PageDone(w) /\ req[w].params.image = << >>
          /\ req[w].result \in Images
          /\ req[w].params.collection # "" => req[w].params.source # "" )
        => LET i == req[w].result
               p == req[w].params
           IN  /\ p.collection # "" => CollectionSlug(CollectionOf(i)) = p.collection
               /\ p.source # "" => SourceSlug(SourceOf(CollectionOf(i))) = p.source
               /\ p.difficulty \in Difficulties => difficulty[i] = p.difficulty

\* C28: while the answer of a logout called by a logged-in user lies unread
\* (no login has been handled since), a submit, validate or skip of the
\* session that arrives is handled for no user: the submit may only store a
\* row without a submitter and is turned away when the image has a
\* georeference, the validate is answered as unauthenticated, and the skip
\* is answered at once and writes nothing.
C28_AnonymousAfterLogout ==
    [][\A w \in Workers : \A x \in Workers \ {w} :
         ( /\ req[w].pc = "done" /\ req[w].op = "logout"
           /\ req[w].user # Anonymous
           /\ req[x].pc = "idle"
           /\ req'[x].op \in {"submit", "validate", "skip"} )
         => /\ req'[x].user = Anonymous
            /\ (req'[x].op = "submit" /\ HasGeoreferences(georefs, req'[x].image))
                  => req'[x].resp = "anonymous_rejected"
            /\ req'[x].op = "validate" => req'[x].resp = "authentication_required"
            /\ req'[x].op = "skip" => req'[x].pc = "done"
      ]_vars

StatusRank(s) ==
    CASE s = "pending" -> 0
      [] s = "georeferenced" -> 1
      [] s = "validated" -> 2
      [] OTHER -> 3

\* C30: in a step that leaves the flag of an image at false, the status of
\* the image does not move backwards in the order pending, georeferenced,
\* validated; and a request answered by the random pick (the page without an
\* image parameter, the random image) never gets an image that has a
\* georeference.
C30_StatusNeverMovesBack ==
    [][ /\ \A i \in Images :
             (~will_not_georef[i] /\ ~will_not_georef'[i])
             => StatusRank(georeference_status(i)') >= StatusRank(georeference_status(i))
        /\ \A w \in Workers :
             ( /\ req[w].pc = "idle"
               /\ req'[w].op \in {"select", "random"}
               /\ req'[w].params.image = << >>
               /\ req'[w].result \in Images )
             => GeoreferencesOf(req'[w].result) = {}
      ]_vars

\* A random pick has been answered with the one image left, while another
\* image is validated
C30_Witness ==
    \E w \in Workers :
        /\ req[w].pc = "done" /\ req[w].op \in {"select", "random"}
        /\ req[w].params.image = << >>
        /\ req[w].result \in Images
        /\ georeference_status(req[w].result) = "pending"
        /\ \E i \in Images : georeference_status(i) = "validated"

=========================================================================
